---- MODULE Spec2Model ----
(***************************************************************************)
(* Model of src/mopeka_ble/parser.py: MopekaBluetoothDeviceData, the       *)
(* decoder of Mopeka BLE advertisements.                                   *)
(*                                                                         *)
(* Conventions.                                                            *)
(*  - bytes are sequences of 0..255; Python's data[i] is At(data, i).      *)
(*  - floats with one decimal are kept in tenths (38.1 is 381, a battery   *)
(*    percent of 41.3 is 413); float quotients are kept as exact fractions *)
(*    (see FloatQuotient).                                                 *)
(*  - the decoder object is the record `decoder`; the other variables are  *)
(*    the locals and the result of the last call.                          *)
(***************************************************************************)
EXTENDS Integers, Sequences, FiniteSets, TLC

VARIABLES
    decoder,        \* the MopekaBluetoothDeviceData object (its attributes)
    service_info,   \* the argument of the last _start_update call
    changed,        \* local changed_manufacturer_data of the last call
    data,           \* local data: the frame of the last call
    exit,           \* how the last call ended
    did,            \* the steps the last call went through
    updates,        \* the update_sensor calls of the last call, in order
    fp_err,         \* rounding direction of the last float quotient
    calls,          \* number of calls made on the decoder (capped)
    repeat          \* the last call had the inputs of the call before it

vars == <<decoder, service_info, changed, data, exit, did, updates, fp_err,
          calls, repeat>>

\* ------------------------------------------------------------------------
\* Integers, bytes and bit operations as Python computes them
\* ------------------------------------------------------------------------

Unset == 0 - 1

Abs(x) == IF x < 0 THEN 0 - x ELSE x

\* data[i], 0-based
At(bytes, i) == bytes[i + 1]

RECURSIVE BitAnd(_, _)
BitAnd(a, b) ==
    IF a = 0 \/ b = 0 THEN 0
    ELSE (a % 2) * (b % 2) + 2 * BitAnd(a \div 2, b \div 2)

RECURSIVE ShiftLeft(_, _)
ShiftLeft(a, n) == IF n = 0 THEN a ELSE ShiftLeft(2 * a, n - 1)

RECURSIVE ShiftRight(_, _)
ShiftRight(a, n) == IF n = 0 THEN a ELSE ShiftRight(a \div 2, n - 1)

\* int(x).to_bytes(2, byteorder="little"), for 0 <= x < 65536
to_bytes_2_little(x) == <<x % 256, (x \div 256) % 256>>

\* ------------------------------------------------------------------------
\* Float results.  A product or quotient of the floats used here is the
\* exact fraction n/d (d > 0) up to a relative error far below 1/d, so it
\* can differ from the exact value in its integer part only where n/d is a
\* whole number; there the float may lie just below (err = -1) or just
\* above (err = 1) it.
\* ------------------------------------------------------------------------

FloatQuotient(n, d, err) ==
    [n |-> n, d |-> d, err |-> IF n % d = 0 /\ n # 0 THEN err ELSE 0]

\* x < k and x <= k for a float quotient x and an integer k
FloatLess(x, k) == x.n < k * x.d \/ (x.n = k * x.d /\ x.err < 0)

FloatLeq(x, k) == x.n < k * x.d \/ (x.n = k * x.d /\ x.err <= 0)

\* Python's int(x): truncation toward zero
IntOfFloat(x) ==
    LET q == Abs(x.n) \div x.d
        whole == x.n % x.d = 0
    IN  IF x.n >= 0
        THEN IF whole /\ x.err < 0 THEN q - 1 ELSE q
        ELSE IF whole /\ x.err > 0 THEN 1 - q ELSE 0 - q

\* 10^-8 = 10^-4 * 10^-4
CoefficientScale == 10000

\* The float raw * (factor / 10^8), factor in units of 10^-8.  The product is
\* taken in two halves to stay within 32-bit integers:
\* raw * factor = (raw * hi + (raw * lo) div 10^4) * 10^4 + (raw * lo) mod 10^4,
\* whose integer part after division by 10^8 is that of the first term by
\* 10^4.  For every raw in 0..16383 and every temperature in 0..127 the
\* float product has the integer part of the exact one.
ScaledProduct(raw, factor) ==
    LET hi == factor \div CoefficientScale
        lo == factor % CoefficientScale
    IN  FloatQuotient(raw * hi + (raw * lo) \div CoefficientScale,
                      CoefficientScale, 0)

\* Python's round(n/d * 10) for an exact fraction: nearest, ties to even
RoundTenths(n, d) ==
    LET m == 10 * n
        q == m \div d
        r == m % d
    IN  IF 2 * r < d THEN q
        ELSE IF 2 * r > d THEN q + 1
        ELSE IF q % 2 = 0 THEN q ELSE q + 1

\* ------------------------------------------------------------------------
\* Module-level tables
\* ------------------------------------------------------------------------

\* faulty variant: unknown identifiers fall back to a default descriptor
DEVICE_TYPES_WithDefault ==
    [id \in 0..255 |->
        CASE id = 3 -> [model |-> "Mopeka Pro Check", name |-> "Propane Tank"]
          [] id = 4 -> [model |-> "Mopeka Air Space", name |-> "Tank"]
          [] id = 5 -> [model |-> "Mopeka Pro Check Water", name |-> "Water Tank"]
          [] OTHER -> [model |-> "Mopeka Pro Check", name |-> "Propane Tank"]]

DEVICE_TYPES ==
    [id \in {3, 4, 5} |->
        CASE id = 3 -> [model |-> "Mopeka Pro Check", name |-> "Propane Tank"]
          [] id = 4 -> [model |-> "Mopeka Air Space", name |-> "Tank"]
          [] id = 5 -> [model |-> "Mopeka Pro Check Water", name |-> "Water Tank"]]

\* MOPEKA_TANK_LEVEL_COEFFICIENTS_PROPANE, in units of 10^-8
Coefficient0 == 57304500

Coefficient1 == 0 - 282200

Coefficient2 == 0 - 535

SERVICE_UUID == "0000fee5-0000-1000-8000-00805f9b34fb"

\* ------------------------------------------------------------------------
\* The calibration properties (self is the decoder record)
\* ------------------------------------------------------------------------

\* BatteryVoltage = raw / 32.0, as the fraction n/d
BatteryVoltage(self) == [n |-> self.raw_battery, d |-> 32]

\* percent = ((voltage - 2.2) / 0.65) * 100, as the fraction n/d:
\* (n/32 - 22/10) / (65/100) * 100 = (10 n - 704) * 10000 / (320 * 65)
BatteryPercentRaw(self) ==
    LET v == BatteryVoltage(self)
    IN  [n |-> (10 * v.n - 22 * v.d) * 100 * 100, d |-> 10 * v.d * 65]

\* faulty variant: no clamping
BatteryPercentUnclamped(self) ==
    RoundTenths(BatteryPercentRaw(self).n, BatteryPercentRaw(self).d)

\* in tenths of a percent
BatteryPercent(self) ==
    LET percent == BatteryPercentRaw(self)
    IN  IF percent.n > 100 * percent.d THEN 1000
        ELSE IF percent.n < 0 THEN 0
        ELSE RoundTenths(percent.n, percent.d)

TemperatureInCelsius(self) == self.raw_temp - 40

\* faulty variant: the quadratic term is left out
TankLevelInMMLinear(self) ==
    IntOfFloat(ScaledProduct(self.raw_tank_level,
                             Coefficient0 + (Coefficient1 * self.raw_temp)))

TankLevelInMM(self) ==
    LET factor == Coefficient0
                  + (Coefficient1 * self.raw_temp)
                  + (Coefficient2 * self.raw_temp * self.raw_temp)
    IN  IntOfFloat(ScaledProduct(self.raw_tank_level, factor))

\* the float ((mm - min_height) * 100.0) / (max_height - min_height)
TankLevelQuotient(self, err) ==
    FloatQuotient((10 * TankLevelInMM(self) - self.min_height) * 100,
                  self.max_height - self.min_height, err)

\* faulty variant: math.floor in place of int
TankLevelInPercentFloor(self, err) ==
    LET x == TankLevelQuotient(self, err)
    IN  IF x.n % x.d = 0 /\ x.err < 0 THEN (x.n \div x.d) - 1 ELSE x.n \div x.d

TankLevelInPercent(self, err) == IntOfFloat(TankLevelQuotient(self, err))

XPosition(self) == self.raw_x_accel

YPosition(self) == self.raw_y_accel

\* ------------------------------------------------------------------------
\* The sensor store of the base class: update_sensor(key, unit, value,
\* device_class, name) records name and value under key, replacing what the
\* key held.
\* ------------------------------------------------------------------------

MopekaSensor ==
    [LEVEL |-> "level", BATTERY |-> "battery", TEMPERATURE |-> "temperature",
     QUALITY |-> "quality", SIGNAL_STRENGTH |-> "signal_strength",
     X_POSITION |-> "x_position", Y_POSITION |-> "y_position"]

update_sensor(store, key, native_value, name) ==
    (key :> [name |-> name, value |-> native_value]) @@ store

RECURSIVE ApplyUpdates(_, _)
ApplyUpdates(store, calls_made) ==
    IF calls_made = <<>> THEN store
    ELSE ApplyUpdates(update_sensor(store, Head(calls_made).key,
                                    Head(calls_made).value,
                                    Head(calls_made).name),
                      Tail(calls_made))

\* ------------------------------------------------------------------------
\* The decoder object
\* ------------------------------------------------------------------------

\* __init__(max_height, min_height), heights in tenths
NewDecoder(max_height, min_height) ==
    [max_height |-> max_height,
     min_height |-> min_height,
     raw_battery |-> Unset,
     raw_temp |-> Unset,
     raw_tank_level |-> Unset,
     ReadingQualityStars |-> Unset,
     raw_x_accel |-> Unset,
     raw_y_accel |-> Unset,
     precision |-> Unset,
     device_type |-> "",
     title |-> <<>>,
     device_name |-> <<>>,
     device_manufacturer |-> "",
     sensors |-> <<>>,
     last_manufacturer_data |-> <<>>]

\* the update_sensor calls of _process_update, in the order of the code
SensorUpdates(self, err) ==
    << [key |-> MopekaSensor.LEVEL, value |-> TankLevelInPercent(self, err),
        name |-> "Level"],
       [key |-> MopekaSensor.BATTERY, value |-> BatteryPercent(self),
        name |-> "Battery"],
       [key |-> MopekaSensor.TEMPERATURE, value |-> TemperatureInCelsius(self),
        name |-> "Temperature"],
       [key |-> MopekaSensor.QUALITY, value |-> self.ReadingQualityStars,
        name |-> "Quality"],
       [key |-> MopekaSensor.QUALITY, value |-> XPosition(self),
        name |-> "X Position"],
       [key |-> MopekaSensor.QUALITY, value |-> YPosition(self),
        name |-> "Y Position"] >>

\* faulty variant: the battery byte is not masked
ExtractFieldsUnmasked(self, bytes) ==
    [self EXCEPT
        !.raw_battery = At(bytes, 3),
        !.raw_temp = BitAnd(At(bytes, 4), 127),
        !.raw_tank_level =
            BitAnd(ShiftLeft(At(bytes, 6), 8) + At(bytes, 5), 16383),
        !.ReadingQualityStars = ShiftRight(At(bytes, 6), 6),
        !.raw_x_accel = At(bytes, 10),
        !.raw_y_accel = At(bytes, 11)]

\* the assignments of _process_update
ExtractFields(self, bytes) ==
    [self EXCEPT
        !.raw_battery = BitAnd(At(bytes, 3), 127),
        !.raw_temp = BitAnd(At(bytes, 4), 127),
        !.raw_tank_level =
            BitAnd(ShiftLeft(At(bytes, 6), 8) + At(bytes, 5), 16383),
        !.ReadingQualityStars = ShiftRight(At(bytes, 6), 6),
        !.raw_x_accel = At(bytes, 10),
        !.raw_y_accel = At(bytes, 11)]

\* _process_update(data): the decoder after the call, how the call ended and
\* the update_sensor calls it made
process_update(self, bytes, err) ==
    IF Len(bytes) # 12
    THEN [self |-> self, exit |-> "return_94", did |-> {}, updates |-> <<>>]
    ELSE LET extracted == ExtractFields(self, bytes)
             made == SensorUpdates(extracted, err)
         IN  [self |-> [extracted EXCEPT
                           !.sensors = ApplyUpdates(extracted.sensors, made)],
              exit |-> "done",
              did |-> {"extract"},
              updates |-> made]

\* ------------------------------------------------------------------------
\* manufacturer_data is a Python dict: a sequence of [id, payload] entries
\* with distinct ids, in insertion order.
\*
\* BluetoothData.changed_manufacturer_data(service_info) of the base class:
\* remembers the advertisement's manufacturer data and returns the entries
\* that are new or differ from the remembered ones; a single entry is
\* returned as it is, and when nothing is remembered or nothing changed the
\* last entry alone is returned.
\* ------------------------------------------------------------------------

ChangedEntries(last, new) ==
    SelectSeq(new, LAMBDA e : ~(\E i \in 1..Len(last) : last[i] = e))

\* faulty variant: nothing is returned when nothing changed
changed_only(last, new) ==
    IF Len(last) = 0 THEN new ELSE ChangedEntries(last, new)

changed_manufacturer_data(last, new) ==
    IF Len(new) <= 1 THEN new
    ELSE IF Len(last) = 0 \/ ChangedEntries(last, new) = <<>>
         THEN <<new[Len(new)]>>
         ELSE ChangedEntries(last, new)

\* faulty variant: the service UUID is not looked at
AnyService(info) == TRUE

\* SERVICE_UUID in service_info.service_uuids
IsTargetService(info) == SERVICE_UUID \in info.service_uuids

\* faulty variant: the first entry, list(...)[0]
FirstEntry(cm) == cm[1]

\* list(changed_manufacturer_data)[-1] and its payload
LastEntry(cm) == cm[Len(cm)]

\* short_address(address): the last two octets of the address
short_address(address) == SubSeq(address, Len(address) - 1, Len(address))

\* how a call ends before _process_update is reached
Ended(self, how, cm, frame, steps) ==
    [self |-> self, exit |-> how, changed |-> cm, data |-> frame,
     did |-> steps, updates |-> <<>>]

\* _start_update(service_info)
start_update(self, info, err) ==
    IF ~IsTargetService(info)
    THEN Ended(self, "return_67", <<>>, <<>>, {})
    ELSE
      LET cm == changed_manufacturer_data(self.last_manufacturer_data,
                                           info.manufacturer_data)
          remembered == [self EXCEPT
                            !.last_manufacturer_data = info.manufacturer_data]
      IN  IF cm = <<>>
          THEN Ended(remembered, "return_71", cm, <<>>, {})
          ELSE
            LET last_id == LastEntry(cm).id
                frame == to_bytes_2_little(last_id) \o LastEntry(cm).payload
            IN  IF Len(frame) <= 2
                THEN Ended(remembered, "IndexError_81", cm, frame, {})
                ELSE IF At(frame, 2) \notin DOMAIN DEVICE_TYPES
                THEN Ended(remembered, "KeyError_82", cm, frame, {"lookup"})
                ELSE
                  LET device_type == DEVICE_TYPES[At(frame, 2)]
                      name == device_type.name
                      described ==
                        [remembered EXCEPT
                            !.precision = 0,
                            !.device_type = device_type.model,
                            !.title = <<name, short_address(info.address)>>,
                            !.device_name =
                                <<name, short_address(info.address)>>,
                            !.device_manufacturer = "Mopeka"]
                      r == process_update(described, frame, err)
                  IN  [self |-> r.self, exit |-> r.exit, changed |-> cm,
                       data |-> frame,
                       did |-> {"lookup", "metadata"} \cup r.did,
                       updates |-> r.updates]

\* what the host reads from the decoder after a call: the device metadata and
\* the sensor store
Reading(self) ==
    [device_type |-> self.device_type,
     title |-> self.title,
     device_name |-> self.device_name,
     device_manufacturer |-> self.device_manufacturer,
     sensors |-> self.sensors]

\* ------------------------------------------------------------------------
\* Inputs
\* ------------------------------------------------------------------------

CallsCap == 3

DefaultHeights == [max_height |-> 2560, min_height |-> 381]

HeightPairs ==
    {DefaultHeights,
     [max_height |-> 5000, min_height |-> 1000],
     [max_height |-> 10, min_height |-> 3]}

Address == <<170, 187, 204, 221, 238, 255>>

ManufacturerIds == {89, 256}

\* frame bytes 2..11: type, battery, temperature, level low, level high and
\* quality, three unused bytes, x, y
Payloads ==
    { <<>>,
      <<2, 80, 60, 136, 19, 0, 0, 0, 7>>,
      <<5, 80, 60, 136, 19, 0, 0, 0, 7, 9, 11>>,
      <<3, 80, 60, 136, 211, 0, 0, 0, 7, 9>>,
      <<4, 200, 148, 16, 64, 1, 2, 3, 250, 128>>,
      <<5, 96, 0, 255, 63, 9, 9, 9, 0, 255>>,
      <<2, 80, 60, 136, 19, 0, 0, 0, 7, 9>> }

\* the payloads of advertisements with two entries
PairedPayloads ==
    { <<5, 80, 60, 136, 19, 0, 0, 0, 7, 9, 11>>,
      <<3, 80, 60, 136, 211, 0, 0, 0, 7, 9>>,
      <<4, 200, 148, 16, 64, 1, 2, 3, 250, 128>> }

Entries == [id : ManufacturerIds, payload : Payloads]

PairedEntries == [id : ManufacturerIds, payload : PairedPayloads]

ManufacturerData ==
    {<<>>} \cup {<<e>> : e \in Entries}
           \cup {p \in {<<e, f>> : e \in PairedEntries, f \in PairedEntries} :
                    p[1].id # p[2].id}

UuidSets == {{SERVICE_UUID}, {"0000180f-0000-1000-8000-00805f9b34fb"}}

ServiceInfos ==
    [service_uuids : UuidSets, manufacturer_data : ManufacturerData,
     address : {Address}]

NoCall == [service_uuids |-> {}, manufacturer_data |-> <<>>, address |-> Address]

FloatErrors == {0 - 1, 0, 1}

\* the rounding directions a call can meet: only a whole quotient can be
\* missed by the float
Roundings(r) ==
    IF r.exit = "done" /\ TankLevelQuotient(r.self, 1).err # 0
    THEN FloatErrors ELSE {0}

\* the rounding direction that takes effect in a call
EffectiveError(r, err) ==
    IF r.exit = "done" THEN TankLevelQuotient(r.self, err).err ELSE 0

\* ------------------------------------------------------------------------
\* Spec: a decoder receiving advertisements
\* ------------------------------------------------------------------------

Init ==
    /\ decoder = NewDecoder(DefaultHeights.max_height, DefaultHeights.min_height)
    /\ service_info = NoCall
    /\ changed = <<>>
    /\ data = <<>>
    /\ exit = "none"
    /\ did = {}
    /\ updates = <<>>
    /\ fp_err = 0
    /\ calls = 0
    /\ repeat = FALSE

StartUpdate ==
    \E info \in ServiceInfos :
      \E exact \in {start_update(decoder, info, 0)} :
        \E err \in Roundings(exact) :
          \E r \in {IF err = 0 THEN exact
                    ELSE start_update(decoder, info, err)} :
            /\ decoder' = r.self
            /\ service_info' = info
            /\ changed' = r.changed
            /\ data' = r.data
            /\ exit' = r.exit
            /\ did' = r.did
            /\ updates' = r.updates
            /\ fp_err' = EffectiveError(r, err)
            /\ calls' = IF calls < CallsCap THEN calls + 1 ELSE calls
            /\ repeat' = (calls > 0 /\ info = service_info)

Next == StartUpdate

Spec == Init /\ [][Next]_vars

\* ------------------------------------------------------------------------
\* SpecProcess: _process_update applied to one frame on a new decoder
\* ------------------------------------------------------------------------

ByteSamples == {0, 1, 60, 127, 128, 129, 200, 255}

LevelSamples == {0, 1, 63, 64, 136, 255}

BatteryFrames ==
    {<<89, 0, 3, b, 60, 136, 19, 0, 0, 0, 7, 9>> : b \in 0..255}

\* at raw temperature 0 every level 0..16383, which gives every millimeter
\* value the decoder can produce; and raw level 5000 at raw temperature 20
LevelFrames ==
    {<<89, 0, 3, 80, 0, lo, hi, 0, 0, 0, 7, 9>> :
        lo \in 0..255, hi \in 0..63 \cup {64, 128, 255}}
    \cup {<<89, 0, 3, 80, 20, 136, hi, 0, 0, 0, 7, 9>> : hi \in {19, 83}}

FieldFrames ==
    {<<89, 0, 4, b, t, lo, hi, 1, 2, 3, x, y>> :
        b \in ByteSamples, t \in ByteSamples, lo \in LevelSamples,
        hi \in LevelSamples, x \in {0, 128, 255}, y \in {0, 255}}

OtherFrames ==
    {<<89, 0>>, <<89, 0, 3, 80, 60, 136, 19, 0, 0, 0, 7>>,
     <<89, 0, 3, 80, 60, 136, 19, 0, 0, 0, 7, 9, 11>>}

InitProcess ==
    /\ \/ /\ data \in BatteryFrames \cup FieldFrames \cup OtherFrames
          /\ decoder = NewDecoder(DefaultHeights.max_height,
                                  DefaultHeights.min_height)
       \/ /\ data \in LevelFrames
          /\ \E h \in HeightPairs :
                decoder = NewDecoder(h.max_height, h.min_height)
    /\ service_info = NoCall
    /\ changed = <<>>
    /\ exit = "none"
    /\ did = {}
    /\ updates = <<>>
    /\ fp_err = 0
    /\ calls = 0
    /\ repeat = FALSE

ProcessUpdate ==
    /\ exit = "none"
    /\ \E exact \in {process_update(decoder, data, 0)} :
        \E err \in Roundings(exact) :
          \E r \in {IF err = 0 THEN exact
                    ELSE process_update(decoder, data, err)} :
            /\ decoder' = r.self
            /\ exit' = r.exit
            /\ did' = r.did
            /\ updates' = r.updates
            /\ fp_err' = EffectiveError(r, err)
    /\ calls' = 1
    /\ UNCHANGED <<service_info, changed, data, repeat>>

NextProcess == ProcessUpdate

SpecProcess == InitProcess /\ [][NextProcess]_vars

\* ------------------------------------------------------------------------
\* Properties of a decoder receiving advertisements (Spec)
\* ------------------------------------------------------------------------

\* the last call built a frame (lines 73-77 were reached)
FrameBuilt == exit \notin {"none", "return_67", "return_71"}

\* C1 (as claimed): an advertisement with the service UUID and manufacturer
\* data whose frame is not 12 bytes long ends in a plain return at the
\* length check, with no device-type lookup, no field extraction, no sensor
\* value and no device metadata published.
C1_WrongLengthIgnored ==
    (FrameBuilt /\ Len(data) # 12)
        => /\ exit = "return_94"
           /\ did = {}
           /\ updates = <<>>

\* C2 (as claimed): the frame is built from the entry whose manufacturer
\* identifier is the greatest of the advertisement, whatever the order.
C2_GreatestIdSelected ==
    FrameBuilt =>
        \E i \in 1..Len(service_info.manufacturer_data) :
            LET e == service_info.manufacturer_data[i]
            IN  /\ \A j \in 1..Len(service_info.manufacturer_data) :
                       service_info.manufacturer_data[j].id <= e.id
                /\ data = <<e.id % 256, e.id \div 256>> \o e.payload

\* C2 (amended): the frame is built from the entry that comes last in the
\* mapping returned by changed_manufacturer_data, which for the first
\* advertisement of a decoder is the last entry of the advertisement; the
\* frame is the identifier in 2 bytes, low byte first, then the payload.
C2_LastEntrySelected ==
    FrameBuilt =>
        LET e == changed[Len(changed)]
            m == service_info.manufacturer_data
        IN  /\ \E i \in 1..Len(m) : m[i] = e
            /\ calls = 1 => e = m[Len(m)]
            /\ Len(data) = 2 + Len(e.payload)
            /\ data[1] + 256 * data[2] = e.id
            /\ data[1] < 256 /\ data[2] < 256
            /\ \A i \in 1..Len(e.payload) : data[2 + i] = e.payload[i]

\* two entries, the greater identifier first, decoded on a new decoder
C2_Witness ==
    /\ exit = "done"
    /\ calls = 1
    /\ Len(service_info.manufacturer_data) = 2
    /\ service_info.manufacturer_data[1].id > service_info.manufacturer_data[2].id
    /\ data[1] + 256 * data[2] = service_info.manufacturer_data[2].id

\* C3: byte 2 of a 12-byte frame is resolved through the fixed table; any
\* other value raises KeyError (UnknownDeviceType), with no descriptor
\* substituted and nothing published for the frame.
C3_DeviceTypeTable ==
    (FrameBuilt /\ Len(data) = 12) =>
        LET known(model, name) ==
                /\ exit = "done"
                /\ "metadata" \in did
                /\ decoder.device_type = model
                /\ decoder.title[1] = name
                /\ decoder.device_name[1] = name
        IN  CASE data[3] = 3 -> known("Mopeka Pro Check", "Propane Tank")
              [] data[3] = 4 -> known("Mopeka Air Space", "Tank")
              [] data[3] = 5 -> known("Mopeka Pro Check Water", "Water Tank")
              [] OTHER -> /\ exit = "KeyError_82"
                          /\ "metadata" \notin did
                          /\ "extract" \notin did
                          /\ updates = <<>>

\* an unknown device type arriving after an Air Space frame was decoded
C3_Witness ==
    /\ Len(data) = 12
    /\ data[3] = 2
    /\ exit = "KeyError_82"
    /\ decoder.device_type = "Mopeka Air Space"

\* C4 (as claimed): after a successful decode the store holds three separate
\* values: quality (top 2 bits of frame[6]), x position (frame[10]) and
\* y position (frame[11]).
C4_ThreeSeparateValues ==
    exit = "done" =>
        /\ {"quality", "x_position", "y_position"} \subseteq DOMAIN decoder.sensors
        /\ decoder.sensors["quality"].value = data[7] \div 64
        /\ decoder.sensors["x_position"].value = data[11]
        /\ decoder.sensors["y_position"].value = data[12]

\* C5 (as claimed): whatever calls came before, a call ends as it would on a
\* new decoder and publishes the Reading a new decoder would publish: the
\* same metadata steps and the same sensor updates.
C5_SameAsFreshDecoder ==
    exit # "none" =>
        LET f == start_update(NewDecoder(decoder.max_height, decoder.min_height),
                              service_info, fp_err)
        IN  /\ f.exit = exit
            /\ f.did = did
            /\ f.updates = updates

\* C5 (amended): on a new decoder, a call repeated with the inputs of the
\* first call ends as the first did and leaves the Reading unchanged.
C5_RepeatOnFreshDecoder ==
    [][(calls = 1 /\ service_info' = service_info)
          => /\ exit' = exit
             /\ updates' = updates
             /\ Reading(decoder)' = Reading(decoder)]_vars

\* the second call of a decoder repeated the first and published a Reading
C5_Witness ==
    /\ calls = 2
    /\ repeat
    /\ exit = "done"
    /\ Len(service_info.manufacturer_data) = 2

\* C6: without the service UUID the call returns at once, whatever the
\* manufacturer data, and leaves the decoder as it was.
C6_NotTargetService ==
    [][(SERVICE_UUID \notin service_info'.service_uuids)
          => /\ exit' = "return_67"
             /\ decoder' = decoder
             /\ did' = {}
             /\ updates' = <<>>]_vars

\* a valid Pro Check frame without the service UUID, on a decoder that has
\* published nothing
C6_Witness ==
    /\ exit = "return_67"
    /\ Len(service_info.manufacturer_data) = 1
    /\ Len(service_info.manufacturer_data[1].payload) = 10
    /\ service_info.manufacturer_data[1].payload[1] = 3
    /\ DOMAIN decoder.sensors = {}
    /\ decoder.device_type = ""

\* ------------------------------------------------------------------------
\* Properties of _process_update and the calibration (SpecProcess)
\* ------------------------------------------------------------------------

\* C7: for every raw battery value b in 0..127 the battery percent is
\* clamp(((b/32 - 2.2)/0.65)*100, 0, 100) rounded to one decimal, lies in
\* 0.0..100.0 and does not decrease with b; it is 0.0 at 70 and 100.0 at 96.
\* ((b/32 - 2.2)/0.65)*100 is the fraction 25*(5b - 352)/26.
C7_BatteryPercent ==
    exit = "done" =>
        LET b == decoder.raw_battery
            p == updates[2].value
            n == 25 * (5 * b - 352)
            d == 26
        IN  /\ updates[2].key = "battery"
            /\ b \in 0..127
            /\ p \in 0..1000
            /\ n > 100 * d => p = 1000
            /\ n < 0 => p = 0
            /\ (0 <= n /\ n <= 100 * d) => 2 * Abs(10 * n - p * d) <= d
            /\ \A lower \in 0..b :
                   BatteryPercent([decoder EXCEPT !.raw_battery = lower]) <= p
            /\ b = 70 => p = 0
            /\ b = 96 => p = 1000

\* a raw battery value of 80 (2.5 V) published as 46.2 percent
C7_Witness ==
    /\ exit = "done"
    /\ decoder.raw_battery = 80
    /\ decoder.sensors["battery"].value = 462

\* C8 (as claimed): raw level 5000 at raw temperature 20 is 2583 mm.
C8_Level2583 ==
    (exit = "done" /\ decoder.raw_tank_level = 5000 /\ decoder.raw_temp = 20)
        => TankLevelInMM(decoder) = 2583

\* C8 (amended): raw level 5000 at raw temperature 20 is 2572 mm, the
\* integer part of 5000 * (0.573045 - 0.002822*20 - 0.00000535*400)
\* = 5000 * 0.514465 = 2572.325.
C8_Level2572 ==
    (exit = "done" /\ decoder.raw_tank_level = 5000 /\ decoder.raw_temp = 20)
        => /\ TankLevelInMM(decoder) = 2572
           /\ updates[1].key = "level"
           /\ decoder.min_height = 381 /\ decoder.max_height = 2560
                => updates[1].value = 1162

C8_Witness ==
    /\ exit = "done"
    /\ decoder.raw_tank_level = 5000
    /\ decoder.raw_temp = 20
    /\ At(data, 5) = 136
    /\ At(data, 6) = 19

\* C9 (as claimed): the level percent is the floor of the quotient
\* ((mm - minHeight) * 100.0) / (maxHeight - minHeight): the integer p with
\* p <= quotient < p + 1, also when the quotient is negative.
C9_PercentIsFloor ==
    exit = "done" =>
        LET x == TankLevelQuotient(decoder, fp_err)
            p == updates[1].value
        IN  ~FloatLess(x, p) /\ FloatLess(x, p + 1)

\* C9 (amended): the level percent is the quotient truncated toward zero:
\* p <= quotient < p + 1 when the quotient is not negative, and
\* p - 1 < quotient <= p when it is; it is not clamped to 0..100, and 147 mm
\* with the default heights gives 49.
C9_PercentIsTruncated ==
    exit = "done" =>
        LET x == TankLevelQuotient(decoder, fp_err)
            p == updates[1].value
        IN  /\ updates[1].key = "level"
            /\ FloatLess(x, 0) => (~FloatLeq(x, p - 1) /\ FloatLeq(x, p) /\ p <= 0)
            /\ ~FloatLess(x, 0) => (~FloatLess(x, p) /\ FloatLess(x, p + 1))
            /\ (TankLevelInMM(decoder) = 147 /\ decoder.min_height = 381
                    /\ decoder.max_height = 2560) => p = 49

\* a level below the minimum height: 8 mm with the default heights
\* is (80 - 381) * 100 / 2179 = -13.8, published as -13
C9_Witness ==
    /\ exit = "done"
    /\ decoder.min_height = 381
    /\ decoder.max_height = 2560
    /\ TankLevelInMM(decoder) = 8
    /\ decoder.sensors["level"].value = 0 - 13

\* the frames that differ from a frame in bit 7 of bytes 3 and 4 and in
\* bytes 7..9 only
C10_Variants(frame) ==
    {[frame EXCEPT ![4] = b, ![5] = t, ![8] = u[1], ![9] = u[2], ![10] = u[3]] :
        b \in {frame[4], (frame[4] + 128) % 256},
        t \in {frame[5], (frame[5] + 128) % 256},
        u \in {<<0, 0, 0>>, <<255, 128, 1>>}}

\* C10: the raw fields of a 12-byte frame follow the layout: battery and
\* temperature are the low 7 bits of bytes 3 and 4, the level the low 14
\* bits of bytes 5..6 (low byte first), the quality the top 2 bits of byte 6;
\* the temperature is raw - 40, in -40..87; bit 7 of bytes 3 and 4 and bytes
\* 7..9 change nothing the decoder holds after the call.
C10_FieldLayout ==
    exit = "done" =>
        /\ decoder.raw_battery = At(data, 3) % 128
        /\ decoder.raw_temp = At(data, 4) % 128
        /\ decoder.raw_tank_level = (At(data, 5) + 256 * At(data, 6)) % 16384
        /\ decoder.ReadingQualityStars = At(data, 6) \div 64
        /\ decoder.ReadingQualityStars * 16384 + decoder.raw_tank_level
               = At(data, 5) + 256 * At(data, 6)
        /\ decoder.sensors["temperature"].value = decoder.raw_temp - 40
        /\ decoder.sensors["temperature"].value \in (0 - 40)..87
        /\ \A other \in C10_Variants(data) :
               process_update(NewDecoder(decoder.max_height, decoder.min_height),
                              other, fp_err).self = decoder

\* a frame with bit 7 set in bytes 3 and 4, quality bits and unused bytes set
C10_Witness ==
    /\ exit = "done"
    /\ At(data, 3) >= 128
    /\ At(data, 4) >= 128
    /\ At(data, 6) >= 64
    /\ At(data, 8) # 0
    /\ decoder.raw_tank_level > 255

====
